---- MODULE Spec2Model ----
(***************************************************************************)
(* The harfbuzz shaper of wezterm-font (src/wezterm-font/src/shaper/       *)
(* harfbuzz.rs): the font-pair slots, the recursive fallback shaping of    *)
(* do_shape and the records it returns.                                    *)
(*                                                                         *)
(* A text is a sequence of UTF-8 bytes: the lead byte of a character is    *)
(* the character's name, each continuation byte is "-", so byte offsets,   *)
(* character boundaries and slices are those of the Rust &str.             *)
(***************************************************************************)
EXTENDS Integers, Sequences, FiniteSets, TLC

\* ------------------------------------------------------------------ bounds
\* Longest text handed to shape, in characters.
MaxLen == 3
\* Largest number of slots of a font stack.
MaxSlots == 2
\* The longest text, in characters, shaped between metrics calls.
MaxMetricsLen == 1
\* The slots of the deeper font stacks, and the longest text shaped on them.
DeepSlots == 3
MaxDeepLen == 1
\* The mux window ids and the GUI windows there are.
MaxMuxWindows == 3
MaxGuiWindows == 3
\* The most tasks of reconcile_workspace and mux notifications under way.
MaxTasks == 2
MaxNotifications == 1

\* --------------------------------------------------------------- characters
\* "q" is '?', "R" is U+FFFD, "W" is U+3000 (a wide character), "m" is a
\* combining mark (U+0301): it extends the grapheme of the character before it.
Chars == {"q", "R", "W", "m"}

REPLACEMENT_CHARACTER == "R"
QuestionMark == "q"

\* The UTF-8 length of a character.
Utf8Len(c) == CASE c = "q" -> 1
                [] c = "_" -> 1
                [] c = " " -> 1
                [] c = "m" -> 2
                [] OTHER   -> 3

\* The column width of one character (0 for a combining mark, 2 for a wide one).
CharWidth(c) == CASE c = "m" -> 0
                  [] c = "W" -> 2
                  [] OTHER   -> 1

IsExtend(c) == c = "m"

Encode(c) == [k \in 1..Utf8Len(c) |-> IF k = 1 THEN c ELSE "-"]

RECURSIVE Utf8(_)
Utf8(cs) == IF cs = <<>> THEN <<>> ELSE Encode(Head(cs)) \o Utf8(Tail(cs))

IsLead(b) == b # "-"

\* str::chars()
RECURSIVE CharsOf(_)
CharsOf(s) ==
  IF s = <<>> THEN <<>>
  ELSE (IF IsLead(Head(s)) THEN <<Head(s)>> ELSE <<>>) \o CharsOf(Tail(s))

\* str::is_char_boundary: false beyond the end of the string.
is_char_boundary_Lenient(s, i) ==
  \/ i = 0
  \/ i >= Len(s)
  \/ i > 0 /\ i < Len(s) /\ IsLead(s[i + 1])

\* str::is_char_boundary: the start, the end, and the first byte of a
\* character; false beyond the end.
is_char_boundary(s, i) ==
  \/ i = 0
  \/ i = Len(s)
  \/ i > 0 /\ i < Len(s) /\ IsLead(s[i + 1])

\* Whether &s[a..b] is a slice Rust accepts (it panics otherwise).
SliceOK(s, a, b) ==
  a <= b /\ b <= Len(s) /\ is_char_boundary(s, a) /\ is_char_boundary(s, b)

Slice(s, a, b) == SubSeq(s, a + 1, b)

\* A grapheme starts at the first character of a string and at every
\* character that is not an extender.
StartsGrapheme(s, i) == IsLead(s[i]) /\ (i = 1 \/ ~IsExtend(s[i]))

\* s.graphemes(true).count()
GraphemeCount(s) == Cardinality({i \in 1..Len(s) : StartsGrapheme(s, i)})

\* FirstGraphemeLen, taking the first character for the first grapheme.
FirstGraphemeLen_FirstChar(s) ==
  IF s = <<>> THEN 0
  ELSE LET later == {i \in 2..Len(s) : IsLead(s[i])}
       IN  IF later = {} THEN Len(s)
           ELSE (CHOOSE i \in later : \A j \in later : i <= j) - 1

\* The byte length of s.graphemes(true).next(), 0 when s is empty.
FirstGraphemeLen(s) ==
  IF s = <<>> THEN 0
  ELSE LET later == {i \in 2..Len(s) : StartsGrapheme(s, i)}
       IN  IF later = {} THEN Len(s)
           ELSE (CHOOSE i \in later : \A j \in later : i <= j) - 1

\* termwiz::cell::unicode_column_width
unicode_column_width(s) ==
  LET RECURSIVE Sum(_)
      Sum(t) == IF t = <<>> THEN 0
                ELSE (IF IsLead(Head(t)) THEN CharWidth(Head(t)) ELSE 0)
                     + Sum(Tail(t))
  IN  Sum(s)

\* ------------------------------------------------------- replacement string
is_question_string(s) ==
  \A i \in 1..Len(s) : IsLead(s[i]) => s[i] = REPLACEMENT_CHARACTER

make_question_string(s) ==
  LET len == GraphemeCount(s)
      c   == IF ~is_question_string(s) THEN REPLACEMENT_CHARACTER
             ELSE QuestionMark
  IN  Utf8([i \in 1..len |-> c])

\* ------------------------------------------------------------- font handles
\* A ParsedFont handle and its face as far as the shaper reads them:
\* assume_emoji_presentation, the characters the face has a glyph for, whether
\* its glyph of a combining mark has an advance of its own, and the width of
\* the SelectedSize that set_font_size returns, in pixels.
Complete == [emoji |-> FALSE, cov |-> Chars, spacing |-> FALSE, width |-> 6]
Latin    == [emoji |-> FALSE, cov |-> {"q", "m"}, spacing |-> TRUE, width |-> 6]
Emoji    == [emoji |-> TRUE, cov |-> {"W", "m"}, spacing |-> TRUE, width |-> 10]
Tofu     == [emoji |-> FALSE, cov |-> {"R"}, spacing |-> FALSE, width |-> 6]

HandleKinds == {Complete, Latin, Emoji, Tofu}

\* The font stacks a shaper is constructed with (HarfbuzzShaper::new).
Stacks == UNION {[1..n -> HandleKinds] : n \in 0..MaxSlots}

\* The texts handed to shape.
Texts == {Utf8(cs) : cs \in UNION {[1..n -> Chars] : n \in 0..MaxLen}}

\* Option<Presentation>
Presentations == {"None", "Text", "Emoji"}

HandlePresentation(h) == IF h.emoji THEN "Emoji" ELSE "Text"

\* ----------------------------------------------------------------- backend
\* The glyph index a face gives a character it covers; 0 is the missing glyph.
GlyphId(c) == CASE c = "q" -> 1 [] c = "R" -> 2 [] c = "W" -> 3 [] OTHER -> 4

\* The advance of a character's glyph, in 26.6 fixed point: one cell, 10
\* pixels for the wide character, nothing for a mark that does not space.
Advance(h, c) ==
  CASE c = "m" -> (IF h.spacing THEN 64 * h.width ELSE 0)
    [] c = "W" -> 64 * 10
    [] OTHER   -> 64 * h.width

\* The byte offset of the grapheme that holds the character at byte i (1-based).
ClusterOf(s, i) ==
  (CHOOSE j \in 1..i : /\ StartsGrapheme(s, j)
                       /\ \A l \in (j + 1)..i : ~StartsGrapheme(s, l)) - 1

\* harfbuzz::Font::shape on a left-to-right buffer at cluster level "monotone
\* graphemes": one glyph per character, in text order, the glyphs of a
\* grapheme sharing the byte offset of the grapheme as their cluster.
HbShape(h, s) ==
  LET leads == {i \in 1..Len(s) : IsLead(s[i])}
      RECURSIVE Build(_)
      Build(i) ==
        IF i > Len(s) THEN <<>>
        ELSE IF i \notin leads THEN Build(i + 1)
        ELSE <<[cluster   |-> ClusterOf(s, i),
                codepoint |-> IF s[i] \in h.cov THEN GlyphId(s[i]) ELSE 0,
                x_advance |-> Advance(h, s[i]),
                y_advance |-> 0,
                x_offset  |-> 0,
                y_offset  |-> 0]>> \o Build(i + 1)
  IN  Build(1)

\* ------------------------------------------------------------- glyph records
\* f64::from(x) / 64.0 of a 26.6 fixed point value: exact, kept as the whole
\* pixels and the 64ths.
PixelLength(x) == [px |-> x \div 64, frac64 |-> x % 64]

Space == Utf8(<<" ">>)

\* The text do_shape labels a glyph with when its carved slice is empty.
Placeholder == Utf8(<<"_", "_">>)

make_glyphinfo(text, font_idx, info) ==
  [text      |-> text,
   is_space  |-> text = Space,
   num_cells |-> unicode_column_width(text),
   font_idx  |-> font_idx,
   glyph_pos |-> info.codepoint,
   cluster   |-> info.cluster,
   x_advance |-> PixelLength(info.x_advance),
   y_advance |-> PixelLength(info.y_advance),
   x_offset  |-> PixelLength(info.x_offset),
   y_offset  |-> PixelLength(info.y_offset)]

\* ------------------------------------------------------ cluster partitioning
\* The Info of glyph i of the backend's output: its length runs to the next
\* glyph's cluster, or to the end of the text.
NextPos(glyphs, i, slen) ==
  IF i < Len(glyphs) THEN glyphs[i + 1].cluster ELSE slen

MakeInfo(glyphs, i, slen) ==
  [cluster   |-> glyphs[i].cluster,
   len       |-> NextPos(glyphs, i, slen) - glyphs[i].cluster,
   codepoint |-> glyphs[i].codepoint,
   x_advance |-> glyphs[i].x_advance,
   y_advance |-> glyphs[i].y_advance,
   x_offset  |-> glyphs[i].x_offset,
   y_offset  |-> glyphs[i].y_offset]

\* One turn of the `while let Some((info, pos))` loop: the glyph joins the
\* last cluster when it has that cluster's value; a missing glyph after a
\* missing glyph lengthens the prior one and is not kept; else a new cluster.
AddInfo(acc, glyphs, i, slen) ==
  LET info == MakeInfo(glyphs, i, slen)
      n    == Len(acc)
      k    == Len(acc[n])
  IN  IF n > 0 /\ acc[n][k].cluster = info.cluster
        THEN [acc EXCEPT ![n] = Append(@, info)]
      ELSE IF n > 0 /\ info.codepoint = 0 /\ acc[n][k].codepoint = 0
        THEN [acc EXCEPT ![n][k].len =
                NextPos(glyphs, i, slen) - acc[n][k].cluster]
      ELSE Append(acc, <<info>>)

RECURSIVE InfoClustersFrom(_, _, _, _)
InfoClustersFrom(acc, glyphs, i, slen) ==
  IF i > Len(glyphs) THEN acc
  ELSE InfoClustersFrom(AddInfo(acc, glyphs, i, slen), glyphs, i + 1, slen)

info_clusters(glyphs, slen) == InfoClustersFrom(<<>>, glyphs, 1, slen)

RECURSIVE SumLen(_)
SumLen(infos) == IF infos = <<>> THEN 0 ELSE Head(infos).len + SumLen(Tail(infos))

cluster_len(infos) == SumLen(infos)
cluster_start(infos) == infos[1].cluster

\* incomplete, looking at the last glyph of the cluster only.
incomplete_LastOnly(infos) == infos[Len(infos)].codepoint = 0

\* `infos.iter().any(|info| info.codepoint == 0)`
incomplete(infos) == \E i \in 1..Len(infos) : infos[i].codepoint = 0

\* ----------------------------------------------------------- direct emission
\* ((f64::from(x_advance) / 64.0) / cell_width).ceil() as usize: the cast of a
\* negative value gives 0.
nom_width(x_advance, cell_width) ==
  IF x_advance <= 0 THEN 0
  ELSE (x_advance + 64 * cell_width - 1) \div (64 * cell_width)

\* The length of the slice a glyph is given, at offset next_idx of substr.
\* -1 when &substr[next_idx..] is no slice (a panic).
CarveLen(substr, next_idx, info, cell_width) ==
  LET nom == nom_width(info.x_advance, cell_width)
  IN  IF nom = 0 \/ ~is_char_boundary(substr, next_idx + nom)
        THEN IF ~SliceOK(substr, next_idx, Len(substr)) THEN -1
             ELSE LET remainder == Slice(substr, next_idx, Len(substr))
                  IN  IF remainder # <<>> THEN FirstGraphemeLen(remainder)
                      ELSE Len(remainder)
      ELSE nom

\* The record of one glyph of a complete cluster.
CarveGlyph(substr, next_idx, len, font_idx, info) ==
  IF len > 0
    THEN make_glyphinfo(Slice(substr, next_idx, next_idx + len), font_idx, info)
  ELSE make_glyphinfo(Placeholder, font_idx, info)

\* ZeroAdvance, no glyph passed over.
ZeroAdvance_Never(info) == FALSE

\* `if info.x_advance == 0 { continue; }`
ZeroAdvance(info) == info.x_advance = 0

\* The `for info in infos.iter()` loop over a complete cluster, from glyph i
\* at offset next_idx: the records pushed and the offset the loop ends at, or
\* a panic.
RECURSIVE EmitFrom(_, _, _, _, _, _)
EmitFrom(infos, i, next_idx, substr, font_idx, cell_width) ==
  IF i > Len(infos)
    THEN [panic |-> FALSE, glyphs |-> <<>>, next_idx |-> next_idx]
  ELSE IF ZeroAdvance(infos[i])
    THEN EmitFrom(infos, i + 1, next_idx, substr, font_idx, cell_width)
  ELSE LET len == CarveLen(substr, next_idx, infos[i], cell_width)
       IN  IF len < 0 \/ (len > 0 /\ ~SliceOK(substr, next_idx, next_idx + len))
             THEN [panic |-> TRUE, glyphs |-> <<>>, next_idx |-> next_idx]
           ELSE LET glyph == CarveGlyph(substr, next_idx, len, font_idx, infos[i])
                    rest  == EmitFrom(infos, i + 1, next_idx + len, substr,
                                      font_idx, cell_width)
                IN  [panic    |-> rest.panic,
                     glyphs   |-> (IF glyph.x_advance # PixelLength(0)
                                     THEN <<glyph>> ELSE <<>>) \o rest.glyphs,
                     next_idx |-> rest.next_idx]

EmitCluster(infos, substr, font_idx, cell_width) ==
  EmitFrom(infos, 1, 0, substr, font_idx, cell_width)

\* -------------------------------------------------------------------- state
VARIABLES
  handles,    \* HarfbuzzShaper.handles: the font stack, fixed at construction
  fonts,      \* HarfbuzzShaper.fonts: per slot, the pair if it is loaded
  stack,      \* the do_shape calls in progress, the innermost last
  no_glyphs,  \* the caller's no_glyphs vector of the current shape call
  call,       \* the current (or last) shape call, its outcome, and the slots
              \* it has asked load_fallback for, shaped with, and emitted from
  prev,       \* the outcome of the call before, when the current one repeats it
  metrics,    \* HarfbuzzShaper.metrics: the cache, MetricsKey -> FontMetrics
  mcall       \* the current (or last) metrics or metrics_for_idx call

\* The GUI front end (frontend.rs) and the mux it talks to.
VARIABLES
  window_workspace,     \* Mux: the workspace of each mux window, if it exists
  active_workspace,     \* Mux: the active workspace of the GUI's client
  known_windows,        \* GuiFrontEnd.known_windows: GUI window -> mux window
  spawned_mux_window,   \* GuiFrontEnd.spawned_mux_window
  switching_workspaces, \* GuiFrontEnd.switching_workspaces
  tasks,                \* the tasks reconcile_workspace spawned, not yet done
  notifications,        \* mux notifications whose task has not run yet
  switcher,             \* the workspace of the WorkspaceSwitcher alive, if any
  trip                  \* a switch to another workspace and back, as far as
                        \* it got, and the mapping of the GUI windows before it

shaper_vars == <<handles, fonts, stack, no_glyphs, call, prev, metrics, mcall>>

gui_vars == <<window_workspace, active_workspace, known_windows,
              spawned_mux_window, switching_workspaces, tasks, notifications,
              switcher, trip>>

vars == <<handles, fonts, stack, no_glyphs, call, prev, metrics, mcall,
          window_workspace, active_workspace, known_windows,
          spawned_mux_window, switching_workspaces, tasks, notifications,
          switcher, trip>>

\* ---------------------------------------------------- the front end's data
\* The mux window ids, the GUI windows in the order of known_windows' keys,
\* and the workspaces in the order of Mux::iter_workspaces.
MuxIds == 1..MaxMuxWindows
Windows == 1..MaxGuiWindows
WorkspaceOrder == <<"A", "B">>
Workspaces == {WorkspaceOrder[i] : i \in 1..Len(WorkspaceOrder)}

\* The workspace of a mux window that does not exist; no mux window.
NoWorkspace == "none"
NoMuxWindow == 0

NoTrip ==
  [phase |-> 0, from |-> NoWorkspace, to |-> NoWorkspace,
   known |-> [w \in Windows |-> NoMuxWindow]]

\* GuiFrontEnd::try_new on a mux whose windows are ww: nothing known, and the
\* mux's notification of its first window on its way.
FrontEndAtStart(ww) ==
  /\ window_workspace = ww
  /\ active_workspace = WorkspaceOrder[1]
  /\ known_windows = [w \in Windows |-> NoMuxWindow]
  /\ spawned_mux_window = {}
  /\ switching_workspaces = FALSE
  /\ tasks = <<>>
  /\ notifications = 1
  /\ switcher = NoWorkspace
  /\ trip = NoTrip

\* A mux without windows.
NoWindows == [id \in MuxIds |-> NoWorkspace]

\* No RefMut of a slot held.
NoPair == -1

\* No metrics call yet. op: "metrics" | "metrics_for_idx"; pc: "loop" in the
\* while loop of metrics; metrics_idx its counter; pair the slot whose RefMut
\* the call holds; font_idx the slot metrics_for_idx was asked for; hit whether
\* it answered from the cache; fresh whether load_fallback made the pair anew;
\* sized the slots the call has called set_font_size on.
NoMetricsCall ==
  [status |-> "none", op |-> "none", size |-> 0, dpi |-> 0, pc |-> "none",
   metrics_idx |-> 0, pair |-> NoPair, font_idx |-> 0, hit |-> FALSE,
   fresh |-> FALSE, sized |-> {}, result |-> <<>>]

\* No size: that of a face no set_font_size was called on.
NoSize == [size |-> 0, dpi |-> 0]

\* A slot of HarfbuzzShaper.fonts, the fields of its FontPair when loaded:
\* face, the size and dpi the face is set to; font, the size and dpi the
\* shaping font has taken from the face, at its creation or at font_changed.
\* An empty slot is RefCell::new(None).
EmptySlot ==
  [loaded |-> FALSE, shaped_any |-> FALSE, face |-> NoSize, font |-> NoSize]

\* The caller shapes at 12 points and 72 dpi.
NoCall == [status |-> "none", text |-> <<>>, presentation |-> "None",
           size |-> 12, dpi |-> 72,
           result |-> <<>>, err |-> <<>>, no_glyphs |-> <<>>,
           loaded |-> {}, shaped |-> {}, emitted |-> {}]

\* The locals of one do_shape call. pair: the slot whose RefMut the call
\* holds. pc: "load" in the slot loop; "clusters"
\* walking info_clusters (ci the next one, cluster the output vector); "wait1", "wait2" in the first and
\* the second recursive call for cluster ci; "restart" in the call that
\* repeats the shape without presentation.
NewFrame(idx, s, p) ==
  [font_idx         |-> idx,
   initial_font_idx |-> idx,
   s                |-> s,
   presentation     |-> p,
   pc               |-> "load",
   shaped_any       |-> FALSE,
   cell_width       |-> 0,
   info_clusters    |-> <<>>,
   ci               |-> 1,
   cluster          |-> <<>>,
   direct_clusters  |-> 0,
   pair             |-> NoPair]

Ok(glyphs) == [ok |-> TRUE, glyphs |-> glyphs, err |-> <<>>]
\* NoMoreFallbacksError { text }
Err(text) == [ok |-> FALSE, glyphs |-> <<>>, err |-> text]

\* HarfbuzzShaper::new
Init ==
  /\ handles \in Stacks
  /\ fonts = [i \in 1..Len(handles) |-> EmptySlot]
  /\ stack = <<>>
  /\ no_glyphs = <<>>
  /\ call = NoCall
  /\ prev = NoCall
  /\ metrics = {}
  /\ mcall = NoMetricsCall
  /\ FrontEndAtStart(NoWindows)

\* ------------------------------------------------------------ load_fallback
\* HasSlot, taking the last slot for the end of the stack.
HasSlot_OffByOne(font_idx) == font_idx + 1 < Len(handles)

\* Whether load_fallback(font_idx) returns a pair (None beyond the stack).
HasSlot(font_idx) == font_idx < Len(handles)

\* The slots after load_fallback(font_idx): an empty slot gets a new pair.
load_fallback(fts, font_idx) ==
  IF ~HasSlot(font_idx) THEN fts
  ELSE IF fts[font_idx + 1].loaded THEN fts
  ELSE [fts EXCEPT ![font_idx + 1] = [EmptySlot EXCEPT !.loaded = TRUE]]

\* pair.face.set_font_size(size, dpi) on the pair of font_idx.
set_font_size(fts, font_idx, size, dpi) ==
  [fts EXCEPT ![font_idx + 1].face = [size |-> size, dpi |-> dpi]]

\* pair.font.font_changed() on the pair of font_idx.
font_changed(fts, font_idx) ==
  [fts EXCEPT ![font_idx + 1].font = fts[font_idx + 1].face]

\* The slots whose cell is mutably borrowed: a RefMut held by a do_shape call
\* in progress or by the metrics call.
Held == {stack[i].pair : i \in 1..Len(stack)} \cup {mcall.pair}

\* Whether borrow_mut() on the cell of slot font_idx panics (BorrowMutError).
Borrowed(font_idx) == font_idx # NoPair /\ font_idx \in Held

\* The thread panics: the call in progress is gone.
Panics ==
  /\ call' = [call EXCEPT !.status = "panic"]
  /\ stack' = <<>>
  /\ UNCHANGED <<gui_vars, handles, fonts, no_glyphs, prev, metrics, mcall>>

\* ------------------------------------------------------------ call and return
\* The info_clusters of a call that shapes s at font_idx.
ShapedClusters(font_idx, s) ==
  info_clusters(HbShape(handles[font_idx + 1], s), Len(s))

\* substr of the cluster a frame is at.
FrameSubstr(f) ==
  LET infos == f.info_clusters[f.ci]
  IN  Slice(f.s, cluster_start(infos), cluster_start(infos) + cluster_len(infos))

\* Calling do_shape(idx, s, .., p) under the calls of stk. A call with the
\* arguments of a call still in progress repeats that call's steps and calls
\* itself again: the recursion has no end and the thread's stack overflows.
Enter(stk, idx, s, p) ==
  IF \E i \in 1..Len(stk) : /\ stk[i].initial_font_idx = idx
                            /\ stk[i].s = s
                            /\ stk[i].presentation = p
    THEN [stk |-> stk, status |-> "overflow", val |-> Err(s)]
  ELSE [stk |-> Append(stk, NewFrame(idx, s, p)), status |-> "running",
        val |-> Err(<<>>)]

\* `info.cluster += cluster_start` over the glyphs of a sub-run, appended to
\* the frame's output; the frame goes on with its next cluster.
Splice(f, glyphs) ==
  LET start == cluster_start(f.info_clusters[f.ci])
  IN  [f EXCEPT !.cluster = @ \o [i \in 1..Len(glyphs) |->
                                    [glyphs[i] EXCEPT !.cluster = @ + start]],
                !.ci = @ + 1,
                !.pc = "clusters"]

\* Recovery, shaping the replacement string whatever its presentation.
Recovery_AnyPresentation(f) ==
  [font_idx |-> 0, s |-> make_question_string(FrameSubstr(f)),
   presentation |-> "None"]

\* The arguments of the second call for a cluster, after the first one
\* failed: do_shape(0, &make_question_string(substr), .., presentation).
Recovery(f) ==
  [font_idx |-> 0, s |-> make_question_string(FrameSubstr(f)),
   presentation |-> f.presentation]

\* A do_shape call returns val to the calls of stk: the caller at "wait1"
\* splices an Ok and answers an Err with the call on the replacement string
\* at slot 0; at "wait2" it splices an Ok and returns an Err (the `?`); at
\* "restart" it returns what it got. With no caller, shape returns val.
RECURSIVE Return(_, _)
Return(stk, val) ==
  IF stk = <<>>
    THEN [stk |-> <<>>, status |-> IF val.ok THEN "ok" ELSE "err", val |-> val]
  ELSE LET n     == Len(stk)
           f     == stk[n]
           below == SubSeq(stk, 1, n - 1)
       IN  IF f.pc = "restart" THEN Return(below, val)
           ELSE IF val.ok
             THEN [stk |-> [stk EXCEPT ![n] = Splice(f, val.glyphs)],
                   status |-> "running", val |-> val]
           ELSE IF f.pc = "wait1"
             THEN Enter([stk EXCEPT ![n].pc = "wait2"], Recovery(f).font_idx,
                        Recovery(f).s, Recovery(f).presentation)
           ELSE Return(below, val)

\* The state after a call or a return gave r, with no_glyphs now ng and the
\* call's record now c.
Continue(r, ng, c) ==
  /\ stack' = r.stk
  /\ call' = IF r.status = "running" THEN c
             ELSE [c EXCEPT !.status = r.status,
                               !.result = r.val.glyphs,
                               !.err = r.val.err,
                               !.no_glyphs = ng]

Top == stack[Len(stack)]
Callers == SubSeq(stack, 1, Len(stack) - 1)
Running == call.status = "running" /\ stack # <<>>

\* ------------------------------------------------------------------ actions
Returned == stack = <<>> /\ call.status \in {"ok", "err"}

\* No call in progress and none whose result the caller still holds.
Idle == stack = <<>> /\ call.status = "none" /\ mcall.status = "none"

\* FontShaper::shape: do_shape(0, text, ..) with the caller's empty vector.
Shape(text, p) ==
  /\ call' = [NoCall EXCEPT !.status = "running", !.text = text,
                            !.presentation = p]
  /\ no_glyphs' = <<>>
  /\ stack' = <<NewFrame(0, text, p)>>
  /\ UNCHANGED <<gui_vars, handles, metrics, mcall, fonts, prev>>

\* shape again, with the arguments of the call that has just returned.
ShapeAgain ==
  /\ Returned
  /\ prev' = call
  /\ call' = [NoCall EXCEPT !.status = "running", !.text = call.text,
                            !.presentation = call.presentation]
  /\ no_glyphs' = <<>>
  /\ stack' = <<NewFrame(0, call.text, call.presentation)>>
  /\ UNCHANGED <<gui_vars, handles, metrics, mcall, fonts>>

\* The caller is done with the glyphs and the vector of the last call; the
\* shaper keeps its slots.
Drop ==
  /\ Returned
  /\ call' = NoCall
  /\ prev' = NoCall
  /\ no_glyphs' = <<>>
  /\ UNCHANGED <<gui_vars, handles, metrics, mcall, fonts, stack>>

\* The slot loop, load_fallback gave None: the codepoints go to no_glyphs and
\* do_shape returns NoMoreFallbacksError.
NoMoreFallbacks ==
  /\ Running /\ Top.pc = "load"
  /\ ~HasSlot(Top.font_idx)
  /\ no_glyphs' = no_glyphs \o CharsOf(Top.s)
  /\ Continue(Return(Callers, Err(Top.s)), no_glyphs', call)
  /\ UNCHANGED <<gui_vars, handles, metrics, mcall, fonts, prev>>

\* SkipsSlot, sparing a pair that has shaped something before.
SkipsSlot_UnlessPinned(font_idx, p) ==
  /\ font_idx + 1 < Len(fonts)
  /\ p # "None"
  /\ HandlePresentation(handles[font_idx + 1]) # p
  /\ ~fonts[font_idx + 1].shaped_any

\* PairAfterArm, the RefMut living on after the slot loop.
PairAfterArm_Kept(font_idx) == font_idx

\* The slot a call holds when it leaves the Some(pair) arm of the slot loop
\* of the pair of font_idx: pair goes out of scope there.
PairAfterArm(font_idx) == NoPair

\* SkipsSlot without the test for the last slot.
SkipsSlot_AlsoLast(font_idx, p) ==
  /\ p # "None"
  /\ HandlePresentation(handles[font_idx + 1]) # p

\* Whether the slot loop passes over the pair of font_idx.
SkipsSlot(font_idx, p) ==
  /\ font_idx + 1 < Len(fonts)
  /\ p # "None"
  /\ HandlePresentation(handles[font_idx + 1]) # p

\* The slot loop, the pair's presentation is not the requested one and the
\* slot is not the last: on to the next slot.
SkipSlot ==
  /\ Running /\ Top.pc = "load"
  /\ HasSlot(Top.font_idx)
  /\ SkipsSlot(Top.font_idx, Top.presentation)
  /\ IF Borrowed(Top.font_idx) THEN Panics
     ELSE /\ fonts' = load_fallback(fonts, Top.font_idx)
          /\ stack' = [stack EXCEPT ![Len(stack)] =
                         [@ EXCEPT !.font_idx = @ + 1,
                                   !.pair = PairAfterArm(Top.font_idx)]]
          /\ call' = [call EXCEPT !.loaded = @ \cup {Top.font_idx}]
          /\ UNCHANGED <<gui_vars, handles, metrics, mcall, no_glyphs, prev>>

\* IsLastResort without the test that the slot is not the first.
IsLastResort_AlsoFirst(font_idx) == font_idx + 1 = Len(fonts)

\* Whether do_shape, having shaped at font_idx, takes the last resort branch.
IsLastResort(font_idx) == font_idx > 0 /\ font_idx + 1 = Len(fonts)

\* The slot loop shapes with the pair (set_font_size, font_changed, shape) and
\* leaves the loop; the last resort slot records the codepoints and, under a
\* presentation, restarts the call at initial_font_idx without it.
ShapeSlot ==
  /\ Running /\ Top.pc = "load"
  /\ HasSlot(Top.font_idx)
  /\ ~SkipsSlot(Top.font_idx, Top.presentation)
  /\ IF Borrowed(Top.font_idx) THEN Panics
     ELSE /\ fonts' = font_changed(
                        set_font_size(load_fallback(fonts, Top.font_idx),
                                      Top.font_idx, call.size, call.dpi),
                        Top.font_idx)
           /\ LET f == [Top EXCEPT !.shaped_any = fonts'[Top.font_idx + 1].shaped_any,
                                   !.cell_width = handles[Top.font_idx + 1].width,
                                   !.info_clusters = ShapedClusters(Top.font_idx, Top.s),
                                   !.pc = "clusters",
                                   !.pair = PairAfterArm(Top.font_idx)]
                  n == Len(stack)
                  c == [call EXCEPT !.loaded = @ \cup {Top.font_idx},
                                    !.shaped = @ \cup {Top.font_idx}]
              IN  /\ no_glyphs' = IF IsLastResort(f.font_idx)
                                    THEN no_glyphs \o CharsOf(f.s) ELSE no_glyphs
                  /\ IF IsLastResort(f.font_idx) /\ f.presentation # "None"
                       THEN Continue(Enter([stack EXCEPT ![n] = [f EXCEPT !.pc = "restart"]],
                                           f.initial_font_idx, f.s, "None"),
                                     no_glyphs', c)
                     ELSE Continue([stk |-> [stack EXCEPT ![n] = f],
                                    status |-> "running", val |-> Err(<<>>)],
                                   no_glyphs', c)
           /\ UNCHANGED <<gui_vars, handles, metrics, mcall, prev>>

\* The cluster the innermost call is at.
AtCluster ==
  /\ Running /\ Top.pc = "clusters"
  /\ Top.ci <= Len(Top.info_clusters)

CurInfos == Top.info_clusters[Top.ci]

CurSliceOK ==
  SliceOK(Top.s, cluster_start(CurInfos),
          cluster_start(CurInfos) + cluster_len(CurInfos))

\* An incomplete cluster: do_shape(font_idx + 1, substr, ..).
Recurse ==
  /\ AtCluster /\ CurSliceOK
  /\ incomplete(CurInfos)
  /\ Continue(Enter([stack EXCEPT ![Len(stack)].pc = "wait1"],
                    Top.font_idx + 1, FrameSubstr(Top), Top.presentation),
              no_glyphs, call)
  /\ UNCHANGED <<gui_vars, handles, metrics, mcall, fonts, no_glyphs, prev>>

\* A complete cluster: its glyphs of non-zero advance are pushed.
EmitDirect ==
  /\ AtCluster /\ CurSliceOK
  /\ ~incomplete(CurInfos)
  /\ LET r == EmitCluster(CurInfos, FrameSubstr(Top), Top.font_idx,
                          Top.cell_width)
     IN  /\ ~r.panic
         /\ stack' = [stack EXCEPT ![Len(stack)] =
                        [@ EXCEPT !.cluster = @ \o r.glyphs,
                                  !.direct_clusters = @ + Len(r.glyphs),
                                  !.ci = @ + 1]]
         /\ call' = IF r.glyphs = <<>> THEN call
                    ELSE [call EXCEPT !.emitted = @ \cup {Top.font_idx}]
  /\ UNCHANGED <<gui_vars, handles, metrics, mcall, fonts, no_glyphs, prev>>

\* The slots after the `if !shaped_any` block at the end of do_shape.
Unload(fts, f) ==
  IF ~f.shaped_any /\ f.font_idx < Len(fts)
    THEN IF f.direct_clusters = 0
           THEN [fts EXCEPT ![f.font_idx + 1] = EmptySlot]
         ELSE IF fts[f.font_idx + 1].loaded
           THEN [fts EXCEPT ![f.font_idx + 1].shaped_any = TRUE]
         ELSE fts
  ELSE fts

\* All clusters done: unload or pin the pair, return Ok(cluster).
Finish ==
  /\ Running /\ Top.pc = "clusters"
  /\ Top.ci > Len(Top.info_clusters)
  /\ IF ~Top.shaped_any /\ HasSlot(Top.font_idx) /\ Borrowed(Top.font_idx)
       THEN Panics
     ELSE /\ fonts' = Unload(fonts, Top)
          /\ Continue(Return(Callers, Ok(Top.cluster)), no_glyphs, call)
          /\ UNCHANGED <<gui_vars, handles, metrics, mcall, no_glyphs, prev>>

\* ------------------------------------------------------------------ metrics
\* The point sizes and resolutions the caller asks metrics for.
Sizes == {12, 48}
Dpis == {72}

\* The texts shaped between metrics calls.
ShortTexts == {s \in Texts : Len(CharsOf(s)) <= MaxMetricsLen}

\* ftwrap::Face::set_font_size(size, dpi) on the face of handle h: a scalable
\* face takes the requested size, a bitmap face (the emoji font) has one strike.
SelectedFontSize(h, size, dpi) ==
  IF h.emoji
    THEN [height |-> 128, width |-> h.width, is_scaled |-> TRUE]
  ELSE [height |-> (size * dpi) \div 72, width |-> (size * dpi) \div 144,
        is_scaled |-> FALSE]

MetricsKey(font_idx, size, dpi) ==
  [font_idx |-> font_idx, size |-> size, dpi |-> dpi]

\* The FontMetrics metrics_for_idx builds from the selected size and the pair.
FontMetrics(h, size, dpi) ==
  LET selected_size == SelectedFontSize(h, size, dpi)
  IN  [cell_height  |-> selected_size.height,
       cell_width   |-> selected_size.width,
       is_scaled    |-> selected_size.is_scaled,
       presentation |-> HandlePresentation(h)]

NoMetrics ==
  [cell_height |-> 0, cell_width |-> 0, is_scaled |-> FALSE,
   presentation |-> "None"]

\* Plausible with a window of one theoretical height.
Plausible_Factor1(size, dpi, height) ==
  LET diff72 == IF size * dpi >= 72 * height THEN size * dpi - 72 * height
                ELSE 72 * height - size * dpi
  IN  diff72 < size * dpi

\* factor < 2.0, factor = |theoretical_height - height| / theoretical_height
\* and theoretical_height = size * dpi / 72.0, for size * dpi > 0.
Plausible(size, dpi, height) ==
  LET diff72 == IF size * dpi >= 72 * height THEN size * dpi - 72 * height
                ELSE 72 * height - size * dpi
  IN  diff72 < 2 * size * dpi

\* HashMap::get and HashMap::insert on the cache.
CacheGet(cache, key) == {e \in cache : e.key = key}

\* CacheInsert into a cache that keeps the newest entry only.
CacheInsert_Clears(cache, key, value) == {[key |-> key, value |-> value]}

CacheInsert(cache, key, value) ==
  {e \in cache : e.key # key} \cup {[key |-> key, value |-> value]}

\* metrics_for_idx(font_idx, size, dpi) on slots fts and cache: the slots and
\* the cache after it, and what it returns.
metrics_for_idx(fts, cache, font_idx, size, dpi) ==
  LET key   == MetricsKey(font_idx, size, dpi)
      found == CacheGet(cache, key)
  IN  IF ~HasSlot(font_idx)
        THEN [fonts |-> fts, metrics |-> cache, ok |-> FALSE,
              value |-> NoMetrics, hit |-> FALSE, sized |-> {}]
      ELSE IF found # {}
        THEN [fonts |-> load_fallback(fts, font_idx), metrics |-> cache,
              ok |-> TRUE, value |-> (CHOOSE e \in found : TRUE).value,
              hit |-> TRUE, sized |-> {}]
      ELSE LET value == FontMetrics(handles[font_idx + 1], size, dpi)
           IN  [fonts |-> set_font_size(load_fallback(fts, font_idx),
                                        font_idx, size, dpi),
                metrics |-> CacheInsert(cache, key, value), ok |-> TRUE,
                value |-> value, hit |-> FALSE, sized |-> {font_idx}]

\* The metrics call panics on a cell that is borrowed.
MetricsPanics ==
  /\ mcall' = [mcall EXCEPT !.status = "panic"]
  /\ UNCHANGED <<gui_vars, handles, fonts, stack, no_glyphs, call, prev, metrics>>

\* The state after metrics_for_idx(font_idx, ..) ran as the call c.
MetricsReturn(c, font_idx) ==
  LET r == metrics_for_idx(fonts, metrics, font_idx, c.size, c.dpi)
  IN  IF Borrowed(font_idx) /\ HasSlot(font_idx) THEN MetricsPanics
      ELSE /\ fonts' = r.fonts
           /\ metrics' = r.metrics
           /\ mcall' = [c EXCEPT !.status = IF r.ok THEN "ok" ELSE "err",
                                  !.pc = "none",
                                  !.pair = NoPair,
                                  !.font_idx = font_idx,
                                  !.hit = r.hit,
                                  !.fresh = HasSlot(font_idx)
                                            /\ ~fonts[font_idx + 1].loaded,
                                  !.sized = @ \cup r.sized,
                                  !.result = r.value]
           /\ UNCHANGED <<gui_vars, handles, stack, no_glyphs, call, prev>>

\* FontShaper::metrics_for_idx, called by the caller.
MetricsForIdx(font_idx, size, dpi) ==
  /\ Idle
  /\ MetricsReturn([NoMetricsCall EXCEPT !.op = "metrics_for_idx",
                                         !.size = size, !.dpi = dpi],
                   font_idx)

\* FontShaper::metrics: up to the while loop.
Metrics(size, dpi) ==
  /\ Idle
  /\ mcall' = [NoMetricsCall EXCEPT !.status = "running", !.op = "metrics",
                                    !.size = size, !.dpi = dpi, !.pc = "loop"]
  /\ UNCHANGED <<gui_vars, handles, fonts, stack, no_glyphs, call, prev, metrics>>

\* PairAfterIteration, the RefMut living on after the loop.
PairAfterIteration_Kept(font_idx) == font_idx

\* The slot metrics holds when it leaves an iteration of its while loop on
\* the pair of font_idx, by break or by its end: pair goes out of scope.
PairAfterIteration(font_idx) == NoPair

\* One iteration of the while loop of metrics: load_fallback gave a pair, the
\* face is sized; a plausible height breaks the loop, another one moves on.
MetricsLoop ==
  /\ mcall.status = "running" /\ mcall.pc = "loop"
  /\ HasSlot(mcall.metrics_idx)
  /\ IF Borrowed(mcall.metrics_idx) THEN MetricsPanics
     ELSE LET selected_size == SelectedFontSize(handles[mcall.metrics_idx + 1],
                                                mcall.size, mcall.dpi)
              good == Plausible(mcall.size, mcall.dpi, selected_size.height)
          IN  /\ fonts' = set_font_size(
                             load_fallback(fonts, mcall.metrics_idx),
                             mcall.metrics_idx, mcall.size, mcall.dpi)
              /\ mcall' = [mcall EXCEPT
                             !.sized = @ \cup {mcall.metrics_idx},
                             !.pc = IF good THEN "for_idx" ELSE "loop",
                             !.metrics_idx = IF good THEN @ ELSE @ + 1,
                             !.pair = PairAfterIteration(mcall.metrics_idx)]
              /\ UNCHANGED <<gui_vars, handles, stack, no_glyphs, call, prev, metrics>>

\* After the loop (a break, or load_fallback gave None):
\* self.metrics_for_idx(metrics_idx, size, dpi).
MetricsDelegate ==
  /\ mcall.status = "running"
  /\ mcall.pc = "for_idx" \/ (mcall.pc = "loop" /\ ~HasSlot(mcall.metrics_idx))
  /\ MetricsReturn(mcall, mcall.metrics_idx)

\* The caller is done with the FontMetrics of the last call.
MetricsDrop ==
  /\ mcall.status \in {"ok", "err"}
  /\ mcall' = NoMetricsCall
  /\ UNCHANGED <<gui_vars, handles, fonts, stack, no_glyphs, call, prev, metrics>>

Next ==
  \/ Idle /\ \E text \in Texts, p \in Presentations : Shape(text, p)
  \/ ShapeAgain
  \/ Drop
  \/ NoMoreFallbacks
  \/ SkipSlot
  \/ ShapeSlot
  \/ Recurse
  \/ EmitDirect
  \/ Finish

Spec == Init /\ [][Next]_vars

\* HarfbuzzShaper::new on a stack of DeepSlots handles.
DeepInit ==
  /\ handles \in [1..DeepSlots -> HandleKinds]
  /\ fonts = [i \in 1..Len(handles) |-> EmptySlot]
  /\ stack = <<>>
  /\ no_glyphs = <<>>
  /\ call = NoCall
  /\ prev = NoCall
  /\ metrics = {}
  /\ mcall = NoMetricsCall
  /\ FrontEndAtStart(NoWindows)

DeepTexts == {s \in Texts : Len(CharsOf(s)) <= MaxDeepLen}

\* shape calls on the deeper stacks.
DeepNext ==
  \/ Idle /\ \E text \in DeepTexts, p \in Presentations : Shape(text, p)
  \/ ShapeAgain
  \/ Drop
  \/ NoMoreFallbacks
  \/ SkipSlot
  \/ ShapeSlot
  \/ Recurse
  \/ EmitDirect
  \/ Finish

DeepSpec == DeepInit /\ [][DeepNext]_vars

\* shape, metrics and metrics_for_idx calls in any order, one at a time.
MetricsNext ==
  \/ Idle /\ \E text \in ShortTexts, p \in Presentations : Shape(text, p)
  \/ Drop
  \/ NoMoreFallbacks
  \/ SkipSlot
  \/ ShapeSlot
  \/ Recurse
  \/ EmitDirect
  \/ Finish
  \/ \E size \in Sizes, dpi \in Dpis : Metrics(size, dpi)
  \/ MetricsLoop
  \/ MetricsDelegate
  \/ \E font_idx \in 0..MaxSlots, size \in Sizes, dpi \in Dpis :
       MetricsForIdx(font_idx, size, dpi)
  \/ MetricsDrop

MetricsSpec == Init /\ [][MetricsNext]_vars

\* ----------------------------------------------------------- the front end
\* The elements of a set of numbers in increasing order.
RECURSIVE Sorted(_)
Sorted(S) ==
  IF S = {} THEN <<>>
  ELSE LET m == CHOOSE x \in S : \A y \in S : x <= y
       IN  <<m>> \o Sorted(S \ {m})

\* Mux::iter_windows_in_workspace: the ids of the workspace's windows, sorted.
iter_windows_in_workspace(ww, workspace) ==
  Sorted({id \in MuxIds : ww[id] = workspace})

\* Mux::is_workspace_empty
is_workspace_empty(ww, workspace) == \A id \in MuxIds : ww[id] # workspace

\* The workspace the loop over mux.iter_workspaces() activates: the first one
\* that is not empty; the active one stays when there is none.
FirstNonEmpty(ww, active) ==
  LET full == {i \in 1..Len(WorkspaceOrder) :
                 ~is_workspace_empty(ww, WorkspaceOrder[i])}
  IN  IF full = {} THEN active
      ELSE WorkspaceOrder[CHOOSE i \in full : \A j \in full : i <= j]

\* GuiFrontEnd::has_mux_window
has_mux_window(known, mux_window_id) ==
  \E w \in Windows : known[w] = mux_window_id

\* A first loop that leaves a matched mux window in the list.
RECURSIVE KeepFrom_NoRemove(_, _, _)
KeepFrom_NoRemove(w, known, left) ==
  IF w > MaxGuiWindows THEN [mux_windows |-> left, kept |-> {}]
  ELSE IF /\ known[w] # NoMuxWindow
          /\ \E i \in 1..Len(left) : left[i] = known[w]
    THEN LET r == KeepFrom_NoRemove(w + 1, known, left)
         IN  [r EXCEPT !.kept = @ \cup {w}]
  ELSE KeepFrom_NoRemove(w + 1, known, left)

\* The first loop of reconcile_workspace, from GUI window w on, with the mux
\* windows left: a window whose mux window is among them keeps it.
RECURSIVE KeepFrom(_, _, _)
KeepFrom(w, known, left) ==
  IF w > MaxGuiWindows THEN [mux_windows |-> left, kept |-> {}]
  ELSE IF /\ known[w] # NoMuxWindow
          /\ \E i \in 1..Len(left) : left[i] = known[w]
    THEN LET r == KeepFrom(w + 1, known,
                           SelectSeq(left, LAMBDA id : id # known[w]))
         IN  [r EXCEPT !.kept = @ \cup {w}]
  ELSE KeepFrom(w + 1, known, left)

\* The second loop, over the windows not kept: each takes the next mux window
\* that is left (SwitchToMuxWindow), or is closed when none is.
RECURSIVE AssignFrom(_, _, _, _)
AssignFrom(w, known, kept, left) ==
  IF w > MaxGuiWindows
    THEN [windows     |-> [x \in Windows |->
                             IF x \in kept THEN known[x] ELSE NoMuxWindow],
          mux_windows |-> left, switched |-> {}, closed |-> {}]
  ELSE IF known[w] = NoMuxWindow \/ w \in kept
    THEN AssignFrom(w + 1, known, kept, left)
  ELSE IF left # <<>>
    THEN LET r == AssignFrom(w + 1, known, kept, Tail(left))
         IN  [r EXCEPT !.windows[w] = Head(left), !.switched = @ \cup {w}]
  ELSE LET r == AssignFrom(w + 1, known, kept, left)
       IN  [r EXCEPT !.closed = @ \cup {w}]

\* The synchronous part of reconcile_workspace on mux windows ww, the active
\* workspace and the front end's fields: what it leaves, the mux windows it
\* hands to the task it spawns, and whether it set the active workspace.
reconcile_workspace(ww, active, known, spawned, switching) ==
  IF is_workspace_empty(ww, active) /\ switching
    THEN [early |-> TRUE, active |-> active, known_windows |-> known,
          spawned_mux_window |-> spawned, mux_windows |-> <<>>,
          kept |-> {}, switched |-> {}, closed |-> {}, notified |-> 0]
  ELSE LET workspace == IF is_workspace_empty(ww, active)
                          THEN FirstNonEmpty(ww, active) ELSE active
           k == KeepFrom(1, known, iter_windows_in_workspace(ww, workspace))
           a == AssignFrom(1, known, k.kept, k.mux_windows)
       IN  [early |-> FALSE, active |-> workspace,
            known_windows |-> a.windows,
            spawned_mux_window |-> spawned \ {known[w] : w \in a.closed},
            mux_windows |-> a.mux_windows,
            kept |-> k.kept, switched |-> a.switched, closed |-> a.closed,
            notified |-> IF workspace # active THEN 1 ELSE 0]

\* The front end after reconcile_workspace gave r, with the tasks tk and n
\* notifications on their way before it.
AfterReconcile(r, tk, n) ==
  /\ Len(tk) < MaxTasks \/ r.early
  /\ n + r.notified <= MaxNotifications
  /\ active_workspace' = r.active
  /\ known_windows' = r.known_windows
  /\ spawned_mux_window' = r.spawned_mux_window
  /\ tasks' = IF r.early THEN tk
              ELSE Append(tk, [mux_windows |-> r.mux_windows,
                               creating |-> NoMuxWindow])
  /\ notifications' = n + r.notified

\* The trip after a step that leaves the GUI windows of known: a window that
\* is gone is no longer followed, and a trip that was over is forgotten.
TripAfter(known) ==
  IF trip.phase = 2 THEN NoTrip
  ELSE [trip EXCEPT !.known = [w \in Windows |->
                                 IF known[w] = NoMuxWindow THEN NoMuxWindow
                                 ELSE @[w]]]

\* The task a mux notification spawned: reconcile unless a switch is under way.
NotificationTask ==
  /\ notifications > 0
  /\ IF switching_workspaces
       THEN /\ notifications' = notifications - 1
            /\ UNCHANGED <<active_workspace, known_windows,
                           spawned_mux_window, tasks>>
     ELSE AfterReconcile(reconcile_workspace(window_workspace,
                                             active_workspace, known_windows,
                                             spawned_mux_window, FALSE),
                         tasks, notifications - 1)
  /\ trip' = TripAfter(known_windows')
  /\ UNCHANGED <<shaper_vars, window_workspace, switching_workspaces, switcher>>

\* WorkspaceSwitcher::new
SwitcherNew(new_name) ==
  /\ switcher = NoWorkspace
  /\ switching_workspaces' = TRUE
  /\ switcher' = new_name
  /\ trip' = TripAfter(known_windows)
  /\ UNCHANGED <<shaper_vars, window_workspace, active_workspace,
                 known_windows, spawned_mux_window, tasks, notifications>>

\* The switcher is dropped: switch_workspace(new_name) sets the client's
\* active workspace, clears the flag and reconciles.
SwitcherDrop ==
  /\ switcher # NoWorkspace
  /\ LET r == reconcile_workspace(window_workspace, switcher, known_windows,
                                  spawned_mux_window, FALSE)
         left == [w \in Windows |->
                    IF r.known_windows[w] = NoMuxWindow THEN NoMuxWindow
                    ELSE known_windows[w]]
         moved == switcher # active_workspace /\ r.active = switcher
     IN  /\ AfterReconcile(r, tasks, notifications + 1)
         /\ trip' = IF moved /\ trip.phase = 1
                       /\ trip.to = active_workspace /\ trip.from = switcher
                      THEN [TripAfter(r.known_windows) EXCEPT !.phase = 2]
                    ELSE IF moved
                      THEN [phase |-> 1, from |-> active_workspace,
                            to |-> switcher, known |-> left]
                    ELSE IF switcher = active_workspace
                      THEN TripAfter(r.known_windows)
                    ELSE NoTrip
  /\ switching_workspaces' = FALSE
  /\ switcher' = NoWorkspace
  /\ UNCHANGED <<shaper_vars, window_workspace>>

\* The ids the task's loop passes over: those that have a GUI window or are
\* in spawned_mux_window. What is left starts with the id to create.
RECURSIVE SkipKnown(_, _, _)
SkipKnown(mux_windows, known, spawned) ==
  IF mux_windows = <<>> THEN <<>>
  ELSE IF has_mux_window(known, Head(mux_windows))
          \/ Head(mux_windows) \in spawned
    THEN SkipKnown(Tail(mux_windows), known, spawned)
  ELSE mux_windows

\* Task i runs until it waits for TermWindow::new_window or ends; at its end
\* it clears switching_workspaces.
TaskRun(i) ==
  /\ i \in 1..Len(tasks)
  /\ tasks[i].creating = NoMuxWindow
  /\ LET left == SkipKnown(tasks[i].mux_windows, known_windows,
                           spawned_mux_window)
     IN  IF left = <<>>
           THEN /\ switching_workspaces' = FALSE
                /\ tasks' = SubSeq(tasks, 1, i - 1)
                              \o SubSeq(tasks, i + 1, Len(tasks))
                /\ UNCHANGED spawned_mux_window
         ELSE /\ spawned_mux_window' = spawned_mux_window \cup {Head(left)}
              /\ tasks' = [tasks EXCEPT ![i] = [mux_windows |-> Tail(left),
                                                creating |-> Head(left)]]
              /\ UNCHANGED switching_workspaces
  /\ trip' = TripAfter(known_windows)
  /\ UNCHANGED <<shaper_vars, window_workspace, active_workspace,
                 known_windows, notifications, switcher>>

\* record_known_window(window, mux_window_id)
record_known_window(known, window, mux_window_id) ==
  [known EXCEPT ![window] = mux_window_id]

\* TermWindow::new_window of task i made the GUI window `window`, which calls
\* record_known_window; the task goes on when it runs next.
CreationOk(i, window) ==
  /\ i \in 1..Len(tasks)
  /\ tasks[i].creating # NoMuxWindow
  /\ known_windows[window] = NoMuxWindow
  /\ LET known == record_known_window(known_windows, window, tasks[i].creating)
         tk    == [tasks EXCEPT ![i].creating = NoMuxWindow]
     IN  IF switching_workspaces
           THEN /\ known_windows' = known
                /\ tasks' = tk
                /\ UNCHANGED <<active_workspace, spawned_mux_window,
                               notifications>>
         ELSE AfterReconcile(reconcile_workspace(window_workspace,
                                                 active_workspace, known,
                                                 spawned_mux_window, FALSE),
                             tk, notifications)
  /\ trip' = TripAfter(known_windows')
  /\ UNCHANGED <<shaper_vars, window_workspace, switching_workspaces, switcher>>

\* TermWindow::new_window of task i failed: the mux window is killed (the mux
\* notifies its removal) and its id leaves spawned_mux_window.
CreationErr(i) ==
  /\ i \in 1..Len(tasks)
  /\ tasks[i].creating # NoMuxWindow
  /\ notifications < MaxNotifications
  /\ window_workspace' = [window_workspace EXCEPT
                            ![tasks[i].creating] = NoWorkspace]
  /\ spawned_mux_window' = spawned_mux_window \ {tasks[i].creating}
  /\ tasks' = [tasks EXCEPT ![i].creating = NoMuxWindow]
  /\ notifications' = notifications + 1
  /\ trip' = NoTrip
  /\ UNCHANGED <<shaper_vars, active_workspace, known_windows,
                 switching_workspaces, switcher>>

\* forget_known_window(window), as a GUI window the front end knows is
\* destroyed.
ForgetKnownWindow(window) ==
  /\ known_windows[window] # NoMuxWindow
  /\ LET known == [known_windows EXCEPT ![window] = NoMuxWindow]
     IN  IF switching_workspaces
           THEN /\ known_windows' = known
                /\ UNCHANGED <<active_workspace, spawned_mux_window, tasks,
                               notifications>>
         ELSE AfterReconcile(reconcile_workspace(window_workspace,
                                                 active_workspace, known,
                                                 spawned_mux_window, FALSE),
                             tasks, notifications)
  /\ trip' = TripAfter(known_windows')
  /\ UNCHANGED <<shaper_vars, window_workspace, switching_workspaces, switcher>>

\* The front end of a mux with some windows in its workspaces; no shaping.
FrontInit ==
  /\ handles = <<>>
  /\ fonts = <<>>
  /\ stack = <<>>
  /\ no_glyphs = <<>>
  /\ call = NoCall
  /\ prev = NoCall
  /\ metrics = {}
  /\ mcall = NoMetricsCall
  /\ \E ww \in [MuxIds -> Workspaces \cup {NoWorkspace}] : FrontEndAtStart(ww)

FrontNext ==
  \/ NotificationTask
  \/ \E new_name \in Workspaces : SwitcherNew(new_name)
  \/ SwitcherDrop
  \/ \E i \in 1..MaxTasks : TaskRun(i)
  \/ \E i \in 1..MaxTasks, window \in Windows : CreationOk(i, window)
  \/ \E i \in 1..MaxTasks : CreationErr(i)
  \/ \E window \in Windows : ForgetKnownWindow(window)

FrontSpec == FrontInit /\ [][FrontNext]_vars

\* ------------------------------------------------------------------- claims
\* shape has returned Ok.
ReturnedOk == stack = <<>> /\ call.status = "ok"

\* shape has returned, or its recursion has overflowed.
Ended == call.status \in {"ok", "err", "overflow"}

NumGlyphs == Len(call.result)

\* The glyphs the backend gives slot 0 for the text of the call.
Slot0Glyphs == HbShape(handles[1], call.text)

\* C1: the clusters of the glyphs shape returns never decrease from one glyph
\* to the next, whatever sub-run or replacement string they were shaped from.
C1_ClustersNonDecreasing ==
  ReturnedOk =>
    \A i \in 1..(NumGlyphs - 1) :
      call.result[i].cluster <= call.result[i + 1].cluster

\* C2: every cluster shape returns is a byte offset into the text of the call:
\* below its length and on a character boundary.
C2_ClustersInText ==
  ReturnedOk =>
    \A i \in 1..NumGlyphs :
      /\ call.result[i].cluster < Len(call.text)
      /\ is_char_boundary(call.text, call.result[i].cluster)

\* The bytes glyph i covers: up to the next glyph's cluster, or the text's end.
CoveredLen(i) ==
  (IF i < NumGlyphs THEN call.result[i + 1].cluster ELSE Len(call.text))
    - call.result[i].cluster

RECURSIVE SumCovered(_)
SumCovered(i) == IF i > NumGlyphs THEN 0 ELSE CoveredLen(i) + SumCovered(i + 1)

\* C3: the lengths the returned glyphs cover, taken from successive clusters,
\* are not negative and add up to the length of the text.
C3_CoveredLengthsSum ==
  ReturnedOk =>
    /\ \A i \in 1..NumGlyphs : CoveredLen(i) >= 0
    /\ SumCovered(1) = Len(call.text)

\* C4: no shape call makes do_shape call itself without end: the replacement
\* recovery never comes back to a call that is still in progress.
C4_RecursionEnds == call.status # "overflow"

\* C5: a pair whose shaped_any is true stays in its slot with shaped_any true,
\* through every step of every call.
C5_PinnedStays ==
  [][\A k \in 1..Len(fonts) : fonts[k].shaped_any => fonts'[k].shaped_any]_vars

\* C6: when shape returns, no slot the call shaped with and emitted no glyph
\* from still holds a pair that has never shaped anything.
C6_UnusedPairUnloaded ==
  Returned =>
    \A k \in call.shaped \ call.emitted :
      ~(fonts[k + 1].loaded /\ ~fonts[k + 1].shaped_any)

\* A slot resolves none of the clusters of a text: each cluster of the
\* backend's output for it has a missing glyph.
ResolvesNone(h, text) ==
  LET g == HbShape(h, text)
  IN  \A i \in 1..Len(g) :
        \E j \in 1..Len(g) : g[j].cluster = g[i].cluster /\ g[j].codepoint = 0

\* C7: on a stack of two or more slots whose last covers every character,
\* without presentation, a text no earlier slot resolves a cluster of comes
\* back Ok with every glyph from the last slot and every codepoint in
\* no_glyphs.
C7_AllFromLastResort ==
  ( /\ Returned
    /\ Len(handles) >= 2
    /\ handles[Len(handles)].cov = Chars
    /\ call.presentation = "None"
    /\ \A k \in 1..(Len(handles) - 1) : ResolvesNone(handles[k], call.text) )
  => /\ call.status = "ok"
     /\ \A i \in 1..NumGlyphs : call.result[i].font_idx = Len(handles) - 1
     /\ \A i \in 1..Len(call.text) :
          IsLead(call.text[i]) =>
            \E j \in 1..Len(call.no_glyphs) : call.no_glyphs[j] = call.text[i]

\* Slot 0 gives only glyphs that are not missing and have an advance, and the
\* call asks for no presentation.
Slot0Resolves ==
  /\ call.status # "none"
  /\ Len(handles) >= 1
  /\ call.presentation = "None"
  /\ \A i \in 1..Len(Slot0Glyphs) :
       Slot0Glyphs[i].codepoint # 0 /\ Slot0Glyphs[i].x_advance # 0

\* C8: when slot 0 resolves the whole text and no presentation is asked for,
\* shape returns one record per backend glyph, in order, with font_idx 0, the
\* backend's cluster and its advance over 64; no_glyphs stays empty and no
\* slot but slot 0 is loaded.
C8_Slot0Direct ==
  Slot0Resolves =>
    /\ call.status \in {"running", "ok"}
    /\ call.loaded \subseteq {0}
    /\ no_glyphs = <<>>
    /\ call.status = "ok" =>
         /\ NumGlyphs = Len(Slot0Glyphs)
         /\ call.no_glyphs = <<>>
         /\ \A i \in 1..NumGlyphs :
              /\ call.result[i].font_idx = 0
              /\ call.result[i].glyph_pos = Slot0Glyphs[i].codepoint
              /\ call.result[i].cluster = Slot0Glyphs[i].cluster
              /\ 64 * call.result[i].x_advance.px
                   + call.result[i].x_advance.frac64 = Slot0Glyphs[i].x_advance

\* A call that slot 0 resolved has returned glyphs of two clusters, on a stack
\* where slot 0 is also the last slot.
C8_Witness ==
  /\ ReturnedOk /\ Slot0Resolves
  /\ Len(handles) = 1
  /\ NumGlyphs >= 2
  /\ call.result[1].cluster # call.result[NumGlyphs].cluster

\* C9: a shape call that repeats the call before it returns what that call
\* returned and leaves the same no_glyphs, whatever that call did to the slots.
C9_RepeatEqual ==
  (Returned /\ prev.status # "none") =>
    /\ call.status = prev.status
    /\ call.result = prev.result
    /\ call.err = prev.err
    /\ call.no_glyphs = prev.no_glyphs

\* A repeated call has returned glyphs and codepoints in no_glyphs, and the
\* call before it had left a pinned pair and an empty slot behind.
C9_Witness ==
  /\ ReturnedOk /\ prev.status = "ok"
  /\ call.result # <<>>
  /\ call.no_glyphs # <<>>
  /\ \E k \in 1..Len(fonts) : fonts[k].shaped_any
  /\ \E k \in 1..Len(fonts) : ~fonts[k].loaded

\* The slice of the text a record covers: nothing under the placeholder label.
CoveredText(g) == IF g.text = Placeholder THEN <<>> ELSE g.text

\* C10: num_cells of every returned glyph is the column width of the slice of
\* text the glyph covers, also when that slice is empty.
C10_NumCellsOfCovered ==
  ReturnedOk =>
    \A i \in 1..NumGlyphs :
      call.result[i].num_cells = unicode_column_width(CoveredText(call.result[i]))

\* shape was called with the empty text.
EmptyTextCall == call.status # "none" /\ call.text = <<>>

MetricsReturned == mcall.op = "metrics" /\ mcall.status \in {"ok", "err"}

\* |theoretical - h| / theoretical < 2.0 with theoretical = size*dpi/72, for
\* the cell height h slot k selects at the size and dpi of the metrics call.
PassesTest(k) ==
  LET h == SelectedFontSize(handles[k + 1], mcall.size, mcall.dpi).height
      t72 == mcall.size * mcall.dpi
  IN  /\ t72 - 72 * h < 2 * t72
      /\ 72 * h - t72 < 2 * t72

PassingSlots == {k \in 0..(Len(handles) - 1) : PassesTest(k)}

C13_NoPlausibleSlotGivesSlot0 ==
  (MetricsReturned /\ Len(handles) >= 1 /\ PassingSlots = {}) =>
    /\ mcall.status = "ok"
    /\ mcall.font_idx = 0
    /\ mcall.result = FontMetrics(handles[1], mcall.size, mcall.dpi)

C15_NoDoubleBorrow ==
  /\ call.status # "panic"
  /\ mcall.status # "panic"
  /\ Held = {NoPair}

\* The replacement recovery has entered slot 0 again, and shaped with it,
\* under a call that shaped with slot 0 and waits for it.
C15_Witness ==
  /\ Running /\ Len(stack) >= 2
  /\ Top.pc = "clusters" /\ Top.font_idx = 0
  /\ \E i \in 1..(Len(stack) - 1) : stack[i].pc = "wait2" /\ stack[i].font_idx = 0

\* The fragment of the cluster the call f waits for.
WaitedFragment(f) ==
  LET infos == f.info_clusters[f.ci]
      start == infos[1].cluster
  IN  SubSeq(f.s, start + 1, start + SumLen(infos))

\* The call above frame k of stk is the replacement recovery of frame k.
IsRecoveryOf(stk, k) ==
  /\ stk[k + 1].initial_font_idx = 0
  /\ stk[k + 1].presentation = stk[k].presentation
  /\ LET frag == WaitedFragment(stk[k])
         c    == IF \A i \in 1..Len(frag) : frag[i] \in {"R", "-"}
                   THEN "q" ELSE "R"
     IN  stk[k + 1].s = Utf8([i \in 1..GraphemeCount(frag) |-> c])

AtNoSlot == Running /\ Top.pc = "load" /\ Top.font_idx >= Len(handles)

\* C17: a do_shape at an index at or beyond the stack length appends the
\* codepoints of its sub-run to no_glyphs, in order, returns NoMoreFallbacks
\* with that sub-run and changes no slot; load_fallback gives None for these
\* indices and no other, and there are never more slots than handles.
C17_BeyondTheStack ==
  [][ /\ Len(fonts') = Len(handles')
      /\ AtNoSlot =>
           /\ no_glyphs' = no_glyphs \o SelectSeq(Top.s, LAMBDA b : b # "-")
           /\ fonts' = fonts
           /\ call'.loaded = call.loaded
           /\ \/ call'.status = "err" /\ call'.err = Top.s /\ Len(stack) = 1
              \/ /\ Len(stack) >= 2
                 /\ stack[Len(stack) - 1].pc = "wait1"
                 /\ stack'[Len(stack) - 1].pc = "wait2"
      /\ (Running /\ Top.pc = "load" /\ Top.font_idx < Len(handles)) =>
           /\ Top.font_idx \in call'.loaded
           /\ fonts'[Top.font_idx + 1].loaded \/ stack' = <<>>
           /\ no_glyphs' = no_glyphs \/ Top.font_idx + 1 = Len(handles)
    ]_vars

\* The call at the last slot of a stack of two has asked for slot 2, which
\* recorded its codepoint and failed; the caller is in its recovery.
C17_Witness ==
  /\ Running /\ Len(handles) = 2 /\ Len(stack) >= 3
  /\ stack[2].pc = "wait2" /\ stack[2].font_idx = 1
  /\ stack[3].pc = "load"
  /\ no_glyphs # <<>>

\* C18: the slot loop never moves past the last slot. A call entered at a
\* valid index stays at a valid index, and at the last slot it shapes,
\* whatever the pair's presentation and the one asked for.
C18_SkippingStopsAtLastSlot ==
  [][ /\ \A k \in 1..Len(stack') :
           stack'[k].initial_font_idx < Len(handles)
             => stack'[k].font_idx < Len(handles)
      /\ (Running /\ Top.pc = "load" /\ Top.font_idx + 1 = Len(handles)) =>
           /\ Top.font_idx \in call'.shaped
           /\ call'.status # "err"
    ]_vars

\* A call has skipped to the last slot, whose presentation is not the one
\* asked for, and has shaped with it.
C18_Witness ==
  /\ Running
  /\ \E k \in 1..Len(stack) :
       /\ stack[k].font_idx > stack[k].initial_font_idx
       /\ stack[k].font_idx + 1 = Len(handles)
       /\ stack[k].pc = "restart"
       /\ stack[k].presentation = "Text"
       /\ HandlePresentation(handles[stack[k].font_idx + 1]) = "Emoji"

\* The bytes of the grapheme cluster of s that holds byte offset i.
GraphemeAt(s, i) ==
  LET starts == {j \in 1..Len(s) : StartsGrapheme(s, j)}
      from   == CHOOSE j \in starts :
                  j <= i + 1 /\ \A l \in starts : l <= i + 1 => l <= j
      later  == {j \in starts : j > from}
      to     == IF later = {} THEN Len(s)
                ELSE (CHOOSE j \in later : \A l \in later : j <= l) - 1
  IN  SubSeq(s, from, to)

\* Slot k has a glyph for every character of frag.
SlotResolves(k, frag) ==
  \A i \in 1..Len(frag) : frag[i] # "-" => frag[i] \in handles[k + 1].cov

\* C19: under an explicit presentation, a cluster of the text that some slot
\* other than the last has every glyph for is not returned with the last
\* slot's font_idx.
C19_LastResortOnlyAfterStack ==
  (ReturnedOk /\ call.presentation # "None" /\ Len(handles) >= 2) =>
    \A i \in 1..Len(call.result) :
      LET g == call.result[i]
      IN  (g.font_idx = Len(handles) - 1 /\ g.cluster < Len(call.text)) =>
            ~\E k \in 0..(Len(handles) - 2) :
                SlotResolves(k, GraphemeAt(call.text, g.cluster))

\* The number of times c is in the sequence cs.
Occurrences(cs, c) == Cardinality({i \in 1..Len(cs) : cs[i] = c})

\* C20: a do_shape call appends to no_glyphs only when it shapes at the last
\* slot and that is not slot 0, or when its index has no slot, and then the
\* codepoints of its sub-run; a call shaping at another slot appends nothing.
\* Within one shape call a codepoint of the text is appended once for each
\* of its occurrences at most (U+FFFD and '?' also stand in for others).
C20_NoGlyphsAtLastSlotOnce ==
  [][ /\ no_glyphs' # no_glyphs =>
           \/ call'.status = "none" \/ call.status # "running"
           \/ /\ Running /\ Top.pc = "load"
              /\ \/ Top.font_idx >= Len(handles)
                 \/ Top.font_idx + 1 = Len(handles) /\ Top.font_idx > 0
              /\ no_glyphs' = no_glyphs \o SelectSeq(Top.s, LAMBDA b : b # "-")
      /\ call'.status = "running" =>
           \A c \in {"W", "m"} :
             Occurrences(no_glyphs', c) <=
               Occurrences(SelectSeq(call'.text, LAMBDA b : b # "-"), c)
    ]_vars

\* The backend's glyphs of the call f, which has shaped its sub-run.
BackendGlyphs(f) == HbShape(handles[f.font_idx + 1], f.s)

\* The calls in progress that have shaped with a slot.
ShapedFrames == {k \in 1..Len(stack) : stack[k].pc # "load"}

\* The first byte of logical cluster j of the call f, and the byte after it.
FragmentStart(f, j) == f.info_clusters[j][1].cluster
FragmentEnd(f, j) == FragmentStart(f, j) + SumLen(f.info_clusters[j])

\* Logical cluster j of f goes to the next slot: it holds a missing glyph.
HandedOn(f, j) ==
  \E i \in 1..Len(f.info_clusters[j]) : f.info_clusters[j][i].codepoint = 0

\* C21: when a backend cluster ends in a missing glyph and the glyph after
\* it (the first of the next backend cluster) is missing too, both clusters
\* lie in one fragment, handed to the next slot in one call; the fragments
\* of a call are contiguous, do not overlap and increase.
C21_MissingRunsInOneFragment ==
  \A k \in ShapedFrames :
    LET f      == stack[k]
        glyphs == BackendGlyphs(f)
        n      == Len(f.info_clusters)
    IN  /\ \A i \in 1..(Len(glyphs) - 1) :
             (/\ glyphs[i].cluster # glyphs[i + 1].cluster
              /\ glyphs[i].codepoint = 0
              /\ glyphs[i + 1].codepoint = 0) =>
               \E j \in 1..n :
                 /\ HandedOn(f, j)
                 /\ FragmentStart(f, j) <= glyphs[i].cluster
                 /\ glyphs[i + 1].cluster < FragmentEnd(f, j)
        /\ \A j \in 1..n : FragmentStart(f, j) < FragmentEnd(f, j)
        /\ \A j \in 1..(n - 1) : FragmentEnd(f, j) = FragmentStart(f, j + 1)

\* C22: in every call, every missing glyph of the backend lies in a logical
\* cluster that is handed to the next slot: none is dropped, and no cluster
\* that holds one is emitted from the call's own slot.
C22_NoMissingGlyphDropped ==
  \A k \in ShapedFrames :
    LET f      == stack[k]
        glyphs == BackendGlyphs(f)
    IN  \A i \in 1..Len(glyphs) :
          glyphs[i].codepoint = 0 =>
            \E j \in 1..Len(f.info_clusters) :
              /\ HandedOn(f, j)
              /\ FragmentStart(f, j) <= glyphs[i].cluster
              /\ glyphs[i].cluster < FragmentEnd(f, j)

\* The glyph records built so far: those of the calls in progress and those
\* the last call returned.
Records ==
  {call.result[i] : i \in 1..Len(call.result)}
    \cup UNION {{stack[k].cluster[i] : i \in 1..Len(stack[k].cluster)} :
                 k \in 1..Len(stack)}

\* C23: no glyph record has the missing glyph's id as its glyph_pos, at any
\* depth of the recursion and after the recovery on the replacement string.
C23_NoMissingGlyphRecord == \A g \in Records : g.glyph_pos # 0

\* A call returned glyphs of a later slot after some text reached no_glyphs.
C23_Witness ==
  /\ ReturnedOk
  /\ call.no_glyphs # <<>>
  /\ \E i \in 1..Len(call.result) : call.result[i].font_idx > 0
  /\ \E i \in 1..Len(call.result) : call.result[i].font_idx = 0

\* The innermost call is about to emit a complete cluster.
AtComplete == AtCluster /\ CurSliceOK /\ ~incomplete(CurInfos)

\* The glyphs of the current cluster that have an advance.
Advancing == SelectSeq(CurInfos, LAMBDA info : info.x_advance # 0)

\* C24: every glyph record has a non-zero x_advance; the walk of a complete
\* cluster gives the records and ends at the offset that the walk of its
\* glyphs of non-zero advance alone gives, one record for each of them, and
\* direct_clusters grows by the number of these records and by nothing else.
C24_ZeroAdvanceSkipped ==
  [][/\ \A g \in Records' : g.x_advance # PixelLength(0)
     /\ AtComplete =>
          LET n == Len(stack)
              r == EmitCluster(CurInfos, FrameSubstr(Top), Top.font_idx,
                               Top.cell_width)
              a == EmitCluster(Advancing, FrameSubstr(Top), Top.font_idx,
                               Top.cell_width)
          IN  /\ r = a
              /\ Len(r.glyphs) = Len(Advancing)
              /\ Len(stack') = n
              /\ stack'[n].cluster = Top.cluster \o r.glyphs
              /\ stack'[n].direct_clusters =
                   Top.direct_clusters + Len(r.glyphs)
     /\ ~AtComplete =>
          \A k \in 1..Len(stack) :
            k <= Len(stack') =>
              stack'[k].direct_clusters = stack[k].direct_clusters]_vars

\* A call has emitted a cluster that holds a glyph without advance, and a
\* record for the cluster's other glyph.
C24_Witness ==
  \E k \in ShapedFrames :
    LET f == stack[k]
    IN  \E j \in 1..Len(f.info_clusters) :
          /\ j < f.ci
          /\ ~incomplete(f.info_clusters[j])
          /\ \E i \in 1..Len(f.info_clusters[j]) :
               f.info_clusters[j][i].x_advance = 0
          /\ \E i \in 1..Len(f.info_clusters[j]) :
               f.info_clusters[j][i].x_advance # 0
          /\ f.direct_clusters > 0

\* The length the carving rule gives the glyph info at offset off of substr:
\* nom bytes when nom > 0 and off + nom is the start of a character of substr
\* or its end; else up to the next grapheme's start; 0 with nothing left.
RuleLen(substr, off, info, cell_width) ==
  LET nom  == nom_width(info.x_advance, cell_width)
      ends == {n \in 1..(Len(substr) - off) :
                 off + n = Len(substr) \/ StartsGrapheme(substr, off + n + 1)}
  IN  IF /\ nom > 0
         /\ off + nom <= Len(substr)
         /\ (off + nom = Len(substr) \/ IsLead(substr[off + nom + 1]))
        THEN nom
      ELSE IF ends = {} THEN 0
      ELSE CHOOSE n \in ends : \A m \in ends : n <= m

\* The texts the rule gives the glyphs of non-zero advance of a cluster.
RECURSIVE RuleTexts(_, _, _, _)
RuleTexts(infos, off, substr, cell_width) ==
  IF infos = <<>> THEN <<>>
  ELSE IF Head(infos).x_advance = 0
    THEN RuleTexts(Tail(infos), off, substr, cell_width)
  ELSE LET len == RuleLen(substr, off, Head(infos), cell_width)
       IN  <<IF len = 0 THEN Placeholder ELSE Slice(substr, off, off + len)>>
             \o RuleTexts(Tail(infos), off + len, substr, cell_width)

\* C25: the text of each record of a complete cluster is the slice of nom
\* bytes at the running offset when nom > 0 and the slice ends on a character
\* boundary inside the fragment, and else the first grapheme of the rest
\* (the placeholder when nothing is left), also when nom runs past the end.
C25_CarvingRule ==
  AtComplete =>
    LET r == EmitCluster(CurInfos, FrameSubstr(Top), Top.font_idx,
                         Top.cell_width)
    IN  /\ ~r.panic
        /\ [i \in 1..Len(r.glyphs) |-> r.glyphs[i].text]
             = RuleTexts(CurInfos, 0, FrameSubstr(Top), Top.cell_width)

\* The call in progress has carved a glyph by its nominal width, one by the
\* grapheme because nom ran past the end, and one from an empty rest.
C25_Witness ==
  /\ Running
  /\ \E g \in Records : g.text = Placeholder
  /\ \E g \in Records : Len(g.text) = 1
  /\ \E g \in Records : GraphemeCount(g.text) = 1 /\ Len(CharsOf(g.text)) = 2

\* C26: walking a complete cluster, the slices at the running offset are
\* always slices of the fragment (no panic), the fragment is a slice of the
\* sub-run, and the walk ends on a character boundary within the fragment.
C26_OffsetInFragment ==
  AtCluster =>
    /\ CurSliceOK
    /\ ~incomplete(CurInfos) =>
         LET r == EmitCluster(CurInfos, FrameSubstr(Top), Top.font_idx,
                              Top.cell_width)
         IN  /\ ~r.panic
             /\ r.next_idx <= Len(FrameSubstr(Top))
             /\ is_char_boundary(FrameSubstr(Top), r.next_idx)

\* A cluster of several glyphs, the first of which took the whole fragment:
\* the next one is at the end and its nom bytes would run past it.
C26_Witness ==
  /\ AtComplete
  /\ Len(Advancing) > 1
  /\ RuleLen(FrameSubstr(Top), 0, Advancing[1], Top.cell_width)
       = Len(FrameSubstr(Top))
  /\ nom_width(Advancing[2].x_advance, Top.cell_width) > 0

\* The innermost call has walked all its clusters and is at the end of
\* do_shape.
AtEnd == Running /\ Top.pc = "clusters" /\ Top.ci > Len(Top.info_clusters)

\* C27: when a call that shaped at slot idx returns Ok, and the shaped_any it
\* read before shaping was false, slot idx is empty after it if the call
\* emitted no glyph directly, and else holds a pair with shaped_any true; if
\* it read true, the slot is as before; no other slot changes.
C27_EndOfFrameEffect ==
  [][AtEnd =>
       LET slot == Top.font_idx + 1
       IN  /\ \A k \in 1..Len(fonts) : k # slot => fonts'[k] = fonts[k]
           /\ IF Top.shaped_any THEN fonts'[slot] = fonts[slot]
              ELSE IF Top.direct_clusters = 0 THEN ~fonts'[slot].loaded
              ELSE fonts'[slot].loaded /\ fonts'[slot].shaped_any]_vars

\* C28: when shape has returned Ok, every slot that holds a pair holds one
\* with shaped_any true: the pairs loaded to be passed over, and the last
\* slot's pair shaped before a restart, are gone unless they emitted a glyph.
C28_NoUnhelpfulPairLeft ==
  ReturnedOk =>
    \A k \in 1..Len(fonts) : fonts[k].loaded => fonts[k].shaped_any

\* The innermost call is about to shape with the pair of its slot.
AboutToShape ==
  /\ Running /\ Top.pc = "load"
  /\ HasSlot(Top.font_idx)
  /\ ~SkipsSlot(Top.font_idx, Top.presentation)
  /\ ~Borrowed(Top.font_idx)

\* C29: whenever a handle on a pair has been released, the pair's shaping
\* font knows the size its face is set to (every set_font_size was followed
\* by font_changed), and a pair that has just shaped has its face and its
\* shaping font at the size and dpi of the shape call.
C29_SizeChangeNotified ==
  [][/\ \A k \in 1..Len(fonts) :
          fonts'[k].loaded => fonts'[k].font = fonts'[k].face
     /\ AboutToShape =>
          LET pair == fonts'[Top.font_idx + 1]
              size == [size |-> call.size, dpi |-> call.dpi]
          IN  pair.face = size /\ pair.font = size]_vars

\* C30: after a switch to another workspace and the switch back, with the
\* mux windows as they were, every GUI window that was there before the
\* first switch and is still there shows the mux window it showed then.
C30_SwitchBackRestoresMapping ==
  trip.phase = 2 =>
    \A w \in Windows :
      trip.known[w] # NoMuxWindow => known_windows[w] = trip.known[w]

\* Nothing of the front end is under way: no task, no notification, no
\* switcher, and the flag is clear.
Settled ==
  /\ tasks = <<>>
  /\ notifications = 0
  /\ switcher = NoWorkspace
  /\ ~switching_workspaces

\* C31: once the reconciles and their tasks have run and every creation has
\* completed, every mux window of the active workspace has a GUI window; an
\* id left in spawned_mux_window does not keep its window from getting one.
C31_ActiveWindowsShown ==
  Settled =>
    \A id \in MuxIds :
      window_workspace[id] = active_workspace =>
        has_mux_window(known_windows, id)

\* The tasks that wait for the creation of a GUI window for mux window id.
Creating(tk, id) == {i \in 1..Len(tk) : tk[i].creating = id}

\* A task starts TermWindow::new_window for the mux window id in this step.
Starts(id) ==
  Cardinality(Creating(tasks', id)) > Cardinality(Creating(tasks, id))

\* The mux loses the window id in this step (kill_window).
Killed(id) == window_workspace'[id] # window_workspace[id]

\* C32: a task starts the creation for a mux window id only when the id has
\* no GUI window, is not in spawned_mux_window and no other creation for it
\* is under way, and puts it into the set; a mux window is killed only as
\* its creation fails, and its id is then taken out of the set.
C32_CreationStartedOnce ==
  [][\A id \in MuxIds :
       /\ Starts(id) =>
            /\ ~has_mux_window(known_windows, id)
            /\ id \notin spawned_mux_window
            /\ id \in spawned_mux_window'
            /\ Creating(tasks, id) = {}
       /\ Killed(id) =>
            /\ Creating(tasks, id) # {}
            /\ Cardinality(Creating(tasks', id))
                 < Cardinality(Creating(tasks, id))
            /\ window_workspace'[id] = NoWorkspace
            /\ id \notin spawned_mux_window']_vars


\* A WorkspaceSwitcher is alive before and after this step.
SwitcherHeld == switcher # NoWorkspace /\ switcher' # NoWorkspace

\* C33: from WorkspaceSwitcher::new to the drop of the switcher the flag
\* switching_workspaces stays true and no reconcile_workspace runs: no step
\* in between clears the flag, spawns a reconcile task or changes the
\* active workspace.
C33_FlagHeldUntilDrop ==
  [][SwitcherHeld =>
       /\ switching_workspaces'
       /\ Len(tasks') <= Len(tasks)
       /\ active_workspace' = active_workspace]_vars


\* The maps of GUI windows reconcile_workspace can find in this state: the
\* front end's, after record_known_window for a creation under way, or
\* after forget_known_window for a window it knows.
ReconcileKnown ==
  {known_windows}
    \cup {record_known_window(known_windows, w, tasks[i].creating) :
            w \in {x \in Windows : known_windows[x] = NoMuxWindow},
            i \in {j \in 1..Len(tasks) : tasks[j].creating # NoMuxWindow}}
    \cup {[known_windows EXCEPT ![w] = NoMuxWindow] :
            w \in {x \in Windows : known_windows[x] # NoMuxWindow}}

\* The active workspaces it can find: the client's, or the one a live
\* switcher names.
ReconcileActive == {active_workspace} \cup ({switcher} \ {NoWorkspace})

\* The synchronous part led from the map known to the result r as stated:
\* the mux windows shown are pairwise distinct and of the active workspace,
\* and every GUI window of known is kept, re-pointed or closed.
ReconciledWell(known, r) ==
  /\ \A w1, w2 \in Windows :
        (w1 # w2 /\ r.known_windows[w1] # NoMuxWindow)
          => r.known_windows[w1] # r.known_windows[w2]
  /\ \A w \in Windows :
        r.known_windows[w] # NoMuxWindow
          => window_workspace[r.known_windows[w]] = r.active
  /\ \A w \in Windows :
        IF known[w] = NoMuxWindow THEN r.known_windows[w] = NoMuxWindow
        ELSE \/ w \in r.kept /\ r.known_windows[w] = known[w]
             \/ /\ w \in r.switched
                /\ r.known_windows[w] \notin {NoMuxWindow, known[w]}
             \/ /\ w \in r.closed
                /\ r.known_windows[w] = NoMuxWindow
                /\ known[w] \notin r.spawned_mux_window

\* C34: whenever the synchronous part of reconcile_workspace runs to its
\* end, known_windows maps the GUI windows to pairwise distinct mux windows
\* of the client's active workspace, and every GUI window it found is kept,
\* re-pointed, or closed with its old id taken out of spawned_mux_window.
C34_ReconcileResult ==
  \A known \in ReconcileKnown, active \in ReconcileActive,
     switching \in {FALSE, switching_workspaces} :
    LET r == reconcile_workspace(window_workspace, active, known,
                                 spawned_mux_window, switching)
    IN  ~r.early => ReconciledWell(known, r)

\* Two GUI windows show one mux window and a reconcile keeps one of them and
\* closes a window whose mux window is in spawned_mux_window; a reconcile
\* for the other workspace keeps one window and re-points another.
C34_Witness ==
  /\ \E known \in ReconcileKnown, active \in ReconcileActive :
        LET r == reconcile_workspace(window_workspace, active, known,
                                     spawned_mux_window, FALSE)
        IN  /\ \E w1, w2 \in Windows :
                  /\ w1 # w2
                  /\ known[w1] # NoMuxWindow
                  /\ known[w1] = known[w2]
            /\ r.kept # {}
            /\ \E w \in r.closed : known[w] \in spawned_mux_window
  /\ \E known \in ReconcileKnown, active \in ReconcileActive :
        LET r == reconcile_workspace(window_workspace, active, known,
                                     spawned_mux_window, FALSE)
        IN  r.kept # {} /\ r.switched # {}

====
